---- MODULE Spec2Model ----
(***************************************************************************)
(* Rolling replacement of the members of an auto scaling group, as done by *)
(* ec2_asg.py: main() runs create_autoscaling_group (update path) and then *)
(* replace().  The control plane (group, members, load balancers) is the   *)
(* environment; the module is one sequential process whose position is pc. *)
(***************************************************************************)
EXTENDS Integers, Sequences, FiniteSets, TLC

\* ------------------------------------------------------------- bounds ---
\* largest min/max/desired of the group before the module runs
MaxSize == 2
\* number of instance ids the control plane may ever hand out
MaxIds == 6

\* replace_batch_size values explored
BatchSizes == {1, 2}

None == "None"
\* an integer parameter the caller did not give (None in module.params)
Absent == -1
LcOld == "lc-old"
LcCur == "lc-cur"
\* an instance id that never belongs to the group: one the control plane
\* never hands out
Stranger == MaxIds + 1

VARIABLES
    group,      \* what describe_auto_scaling_groups returns for the group
    nextId,     \* next instance id the control plane hands out
    lbIn,       \* per load balancer / target group: ids reported InService / healthy
    lbOut,      \* per load balancer / target group: ids a deregister call was made for
    params,     \* module.params
    pc,         \* position of the module
    loc,        \* local variables of replace / terminate_batch
    wait,       \* state of the poll-wait the module is in
    updLog,     \* UpdateGroup requests sent, in order
    dregLog,    \* deregister calls sent, in order
    termLog     \* TerminateMember calls sent, in order

vars == <<group, nextId, lbIn, lbOut, params, pc, loc, wait, updLog, dregLog, termLog>>
env == <<group, nextId, lbIn, lbOut>>
logs == <<updLog, dregLog, termLog>>

\* ----------------------------------------------------------- helpers ---
Min2(a, b) == IF a < b THEN a ELSE b
Max2(a, b) == IF a > b THEN a ELSE b
Range(s) == {s[k] : k \in DOMAIN s}
InSeq(x, s) == \E k \in DOMAIN s : s[k] = x
RemoveAt(s, k) == SubSeq(s, 1, k - 1) \o SubSeq(s, k + 1, Len(s))
Ids(s) == {s[k].InstanceId : k \in DOMAIN s}
\* Python's l[:n]
PySlice(l, n) ==
    IF n >= 0 THEN SubSeq(l, 1, Min2(n, Len(l)))
    ELSE SubSeq(l, 1, Max2(0, Len(l) + n))

Instance(id, lc, life) ==
    [InstanceId |-> id, LaunchConfigurationName |-> lc,
     LifecycleState |-> life, HealthStatus |-> "Healthy"]

Viable(i) == i.LifecycleState = "InService" /\ i.HealthStatus = "Healthy"
ViableCount(asg) == Cardinality({k \in DOMAIN asg.Instances : Viable(asg.Instances[k])})
Active(asg) == {k \in DOMAIN asg.Instances : asg.Instances[k].LifecycleState # "Terminating"}
Member(asg, id) == \E k \in DOMAIN asg.Instances : asg.Instances[k].InstanceId = id
LcOf(asg, id) ==
    IF Member(asg, id)
    THEN (CHOOSE i \in Range(asg.Instances) : i.InstanceId = id).LaunchConfigurationName
    ELSE None

LBs(asg) == Range(asg.LoadBalancerNames) \cup Range(asg.TargetGroupARNs)
\* variant of ElbMode: the health check type is not looked at
ElbModeAnyBalancer(asg) == LBs(asg) # {}
ElbMode(asg) == LBs(asg) # {} /\ asg.HealthCheckType = "ELB"

\* get_asg_by_name
get_asg_by_name == group

\* get_chunks
get_chunks(l, n) ==
    IF n > 0
    THEN [k \in 1..((Len(l) + n - 1) \div n) |-> SubSeq(l, (k - 1) * n + 1, Min2(k * n, Len(l)))]
    ELSE <<>>

\* ------------------------------------------------ capacity controller ---
\* update_size: the request built from the snapshot asg
update_size(asg, max_size, min_size, dc) ==
    [asg EXCEPT !.MaxSize = max_size, !.MinSize = min_size, !.DesiredCapacity = dc]

\* create_autoscaling_group, update path: attributes given by the caller
\* replace the group's, and DesiredCapacity is clamped into [MinSize, MaxSize]
create_attrs(asg, launch_config_name, p) ==
    [asg EXCEPT !.LaunchConfigurationName = launch_config_name,
                !.MinSize = IF p.min_size = Absent THEN @ ELSE p.min_size,
                !.MaxSize = IF p.max_size = Absent THEN @ ELSE p.max_size,
                !.DesiredCapacity = IF p.desired_capacity = Absent THEN @ ELSE p.desired_capacity]
\* variant of create_clamp: DesiredCapacity sent as given
create_no_clamp(asg) == asg
create_clamp(asg) ==
    LET lo == IF asg.DesiredCapacity < asg.MinSize THEN asg.MinSize ELSE asg.DesiredCapacity
        hi == IF lo > asg.MaxSize THEN asg.MaxSize ELSE lo
    IN [asg EXCEPT !.DesiredCapacity = hi]

\* terminate_batch: the request that resets MinSize
reset_min_size(asg, min_size) == [asg EXCEPT !.MinSize = min_size]

\* the control plane accepts an UpdateGroup request only with consistent sizes
UpdateValid(req) ==
    /\ 0 <= req.MinSize
    /\ req.MinSize <= req.MaxSize
    /\ req.MinSize <= req.DesiredCapacity
    /\ req.DesiredCapacity <= req.MaxSize
Sizes(req) == <<req.MinSize, req.MaxSize, req.DesiredCapacity>>
ApplyUpdate(g, req) ==
    [g EXCEPT !.MinSize = req.MinSize, !.MaxSize = req.MaxSize,
              !.DesiredCapacity = req.DesiredCapacity,
              !.LaunchConfigurationName = req.LaunchConfigurationName]

\* --------------------------------------------------------- classifier ---
\* variant of is_new: membership of the initial instances whatever lc_check
is_new_by_identity(asg, lc_check, initial_instances, i) == ~InSeq(i, initial_instances)
is_new(asg, lc_check, initial_instances, i) ==
    IF lc_check
    THEN i.LaunchConfigurationName = asg.LaunchConfigurationName
    ELSE ~InSeq(i, initial_instances)

\* variant of get_instances_by_lc: the old instances are the initial ones
get_instances_by_initial(asg, lc_check, initial_instances) ==
    [new |-> SelectSeq(asg.Instances, LAMBDA i : is_new(asg, lc_check, initial_instances, i)),
     old |-> IF lc_check
             THEN SelectSeq(asg.Instances,
                            LAMBDA i : ~is_new(asg, lc_check, initial_instances, i))
             ELSE initial_instances]

get_instances_by_lc(asg, lc_check, initial_instances) ==
    [new |-> SelectSeq(asg.Instances, LAMBDA i : is_new(asg, lc_check, initial_instances, i)),
     old |-> SelectSeq(asg.Instances, LAMBDA i : ~is_new(asg, lc_check, initial_instances, i))]

\* variant of list_purgeable_instances: the launch configuration is not looked at
list_purgeable_any_lc(asg, lc_check, replace_instances, initial_instances) ==
    [err |-> None, instances_to_terminate |->
        SelectSeq(replace_instances, LAMBDA r : Member(asg, r.InstanceId))]

\* list_purgeable_instances; err is "KeyError" when a named instance (a dict
\* holding only InstanceId) is asked for its LaunchConfigurationName
list_purgeable_instances(asg, lc_check, replace_instances, initial_instances) ==
    LET instances == SelectSeq(replace_instances, LAMBDA r : Member(asg, r.InstanceId))
    IN IF lc_check
       THEN IF \E k \in DOMAIN instances : "LaunchConfigurationName" \notin DOMAIN instances[k]
            THEN [err |-> "KeyError", instances_to_terminate |-> <<>>]
            ELSE [err |-> None, instances_to_terminate |->
                     SelectSeq(instances,
                         LAMBDA i : i.LaunchConfigurationName # asg.LaunchConfigurationName)]
       ELSE [err |-> None, instances_to_terminate |->
                SelectSeq(instances, LAMBDA i : InSeq(i, initial_instances))]

\* the instances list of replace(): the members read, or the ids named
replace_targets(asg, replace_instances) ==
    IF Len(replace_instances) > 0
    THEN [k \in DOMAIN replace_instances |-> [InstanceId |-> replace_instances[k]]]
    ELSE asg.Instances

\* replace(): batch size used for the scale-up and the chunks
effective_batch_size(lc_check, batch_size, num_new_inst_needed) ==
    IF lc_check /\ num_new_inst_needed < batch_size THEN num_new_inst_needed ELSE batch_size

\* variant of terminate_batch: the leftovers argument is not looked at
terminate_batch_no_leftovers(asg, p, min_size, desired_capacity, replace_instances, initial_instances, leftovers) ==
    LET cls == get_instances_by_lc(asg, p.lc_check, initial_instances)
        num_new_inst_needed == desired_capacity - Len(cls.new)
        purge == list_purgeable_instances(asg, p.lc_check, replace_instances, initial_instances)
        zero == num_new_inst_needed = 0
        few == num_new_inst_needed < p.replace_batch_size /\ num_new_inst_needed # 0
    IN IF purge.err # None
       THEN [err |-> "KeyError", reset |-> FALSE, decrement_capacity |-> FALSE,
             break_loop |-> FALSE, instances_to_terminate |-> <<>>, desired_size |-> asg.MinSize]
       ELSE [err |-> None,
             reset |-> zero /\ asg.MinSize # min_size,
             decrement_capacity |-> zero,
             break_loop |-> zero,
             instances_to_terminate |->
                 IF zero THEN cls.old
                 ELSE IF few THEN PySlice(purge.instances_to_terminate, num_new_inst_needed)
                 ELSE purge.instances_to_terminate,
             desired_size |-> IF zero THEN min_size ELSE asg.MinSize]

\* terminate_batch up to the loop over instances_to_terminate
terminate_batch(asg, p, min_size, desired_capacity, replace_instances, initial_instances, leftovers) ==
    LET cls == get_instances_by_lc(asg, p.lc_check, initial_instances)
        num_new_inst_needed == desired_capacity - Len(cls.new)
        purge == list_purgeable_instances(asg, p.lc_check, replace_instances, initial_instances)
        zero == num_new_inst_needed = 0
        few == num_new_inst_needed < p.replace_batch_size /\ num_new_inst_needed # 0
    IN IF purge.err # None
       THEN [err |-> "KeyError", reset |-> FALSE, decrement_capacity |-> FALSE,
             break_loop |-> FALSE, instances_to_terminate |-> <<>>, desired_size |-> asg.MinSize]
       ELSE [err |-> None,
             reset |-> zero /\ asg.MinSize # min_size,
             decrement_capacity |-> zero /\ ~leftovers,
             break_loop |-> zero,
             instances_to_terminate |->
                 IF zero THEN cls.old
                 ELSE IF few THEN PySlice(purge.instances_to_terminate, num_new_inst_needed)
                 ELSE purge.instances_to_terminate,
             desired_size |-> IF zero THEN min_size ELSE asg.MinSize]
\* ------------------------------------------- load-balancer health ---
\* candidates of elb_healthy: viable members, of the given launch configuration
healthy_candidates(asg, launch_config_name) ==
    {i.InstanceId : i \in {j \in Range(asg.Instances) :
        /\ Viable(j)
        /\ (launch_config_name # None => j.LaunchConfigurationName = launch_config_name)}}

\* the loop of elb_healthy over the balancers: acc is healthy_instances,
\* NoSet while it is still None
NoSet == {Stranger}
RECURSIVE healthy_fold(_, _, _, _)
healthy_fold(acc, lbs, reported, cand) ==
    IF lbs = <<>> THEN acc
    ELSE LET new_healthy_instances == reported[Head(lbs)] \cap cand
             truthy == acc # NoSet /\ acc # {}
         IN healthy_fold(IF truthy THEN acc \cap new_healthy_instances
                         ELSE new_healthy_instances,
                         Tail(lbs), reported, cand)

\* elb_healthy
elb_healthy(asg, reported, launch_config_name) ==
    LET cand == healthy_candidates(asg, launch_config_name)
        healthy_instances ==
            healthy_fold(NoSet, asg.LoadBalancerNames \o asg.TargetGroupARNs, reported, cand)
    IN IF cand = {} THEN 0
       ELSE IF healthy_instances # NoSet /\ healthy_instances # {}
            THEN Cardinality(healthy_instances) ELSE 0

\* variant of describe_calls: the balancers are asked whatever the candidates
describe_calls_always(asg, launch_config_name) ==
    [k \in DOMAIN asg.LoadBalancerNames |->
        [op |-> "describe_instance_health", lb |-> asg.LoadBalancerNames[k]]]
      \o (IF asg.TargetGroupARNs = <<>> THEN <<>>
          ELSE <<[op |-> "describe_target_groups", lb |-> None]>>
               \o [k \in DOMAIN asg.TargetGroupARNs |->
                      [op |-> "describe_target_health", lb |-> asg.TargetGroupARNs[k]]])

\* the describe calls elb_healthy sends, in order: under `if (instances)`,
\* describe_instance_health for each classic load balancer, then, if the
\* group has target groups, describe_target_groups and describe_target_health
\* for each of them
describe_calls(asg, launch_config_name) ==
    IF healthy_candidates(asg, launch_config_name) = {} THEN <<>>
    ELSE [k \in DOMAIN asg.LoadBalancerNames |->
             [op |-> "describe_instance_health", lb |-> asg.LoadBalancerNames[k]]]
           \o (IF asg.TargetGroupARNs = <<>> THEN <<>>
               ELSE <<[op |-> "describe_target_groups", lb |-> None]>>
                    \o [k \in DOMAIN asg.TargetGroupARNs |->
                           [op |-> "describe_target_health", lb |-> asg.TargetGroupARNs[k]]])

\* ------------------------------------------------------ initial state ---
\* the group is checked by EC2 with no balancer, or by its balancer: a classic
\* load balancer or a target group; the caller's load_balancers,
\* target_groups and health_check_type are the group's
AllLBs == {"elb-1", "elb-2", "tg-1"}
LbConfigs ==
    {[HealthCheckType |-> "EC2", LoadBalancerNames |-> <<>>, TargetGroupARNs |-> <<>>],
     [HealthCheckType |-> "ELB", LoadBalancerNames |-> <<"elb-1">>, TargetGroupARNs |-> <<>>],
     [HealthCheckType |-> "ELB", LoadBalancerNames |-> <<>>, TargetGroupARNs |-> <<"tg-1">>]}

\* min_size, max_size and desired_capacity as the caller gives them: none of
\* them, or both bounds with or without desired_capacity
SizeParams ==
    {[min_size |-> Absent, max_size |-> Absent, desired_capacity |-> Absent]}
        \cup [min_size : 1..MaxSize, max_size : 1..MaxSize,
              desired_capacity : {Absent} \cup 1..MaxSize]

\* replace_all_instances (no list), or replace_instances naming these ids
ReplaceLists == {<<>>, <<1>>, <<2, Stranger>>}

Loc0 ==
    [asg |-> <<>>, min_size |-> 0, max_size |-> 0, desired_capacity |-> 0,
     batch_size |-> 0, instances |-> <<>>, minimal_instance |-> 0,
     chunks |-> <<>>, chunk |-> 0,
     leftovers |-> FALSE, to_terminate |-> <<>>, term_instances |-> <<>>,
     decrement_capacity |-> FALSE, break_early |-> FALSE, desired_size |-> 0,
     changed |-> FALSE, wait_desired |-> Absent, healthy_instances |-> 0, err |-> None,
     \* kept for the properties: the ids of the members replace() read first,
     \* and the number of update calls made before replace() began
     initial_ids |-> {}, updates_before |-> 0,
     \* the two lists get_instances_by_lc returned, where it is run on its own
     new_instances |-> <<>>, old_instances |-> <<>>,
     \* the code of the last fault a describe call of a balancer raised
     fault |-> None,
     \* the describe calls elb_healthy sent, where it is run on its own
     described |-> <<>>]

W0 == [polled |-> FALSE, seen |-> FALSE, expired |-> FALSE]

\* the group at rest: as many members as desired, all in service, of either
\* launch configuration, in any order
Init ==
    /\ \E mn \in 1..MaxSize, mx \in 1..MaxSize, dc \in 1..MaxSize, cfg \in LbConfigs :
         /\ mn <= dc /\ dc <= mx
         /\ \E lcs \in [1..dc -> {LcOld, LcCur}] :
              group = [MinSize |-> mn, MaxSize |-> mx, DesiredCapacity |-> dc,
                       LaunchConfigurationName |-> LcCur,
                       HealthCheckType |-> cfg.HealthCheckType,
                       LoadBalancerNames |-> cfg.LoadBalancerNames,
                       TargetGroupARNs |-> cfg.TargetGroupARNs,
                       Instances |-> [k \in 1..dc |-> Instance(k, lcs[k], "InService")]]
    /\ nextId = group.DesiredCapacity + 1
    /\ lbIn = [lb \in AllLBs |-> IF lb \in LBs(group) THEN Ids(group.Instances) ELSE {}]
    /\ lbOut = [lb \in AllLBs |-> {}]
    /\ \E b \in BatchSizes, lcc \in BOOLEAN, rl \in ReplaceLists :
         params = [launch_config_name |-> LcCur, replace_batch_size |-> b,
                   lc_check |-> lcc, replace_instances |-> rl]
    /\ pc = "create"
    /\ loc = Loc0
    /\ wait = W0
    /\ updLog = <<>>
    /\ dregLog = <<>>
    /\ termLog = <<>>

\* ------------------------------------------------------ control plane ---
\* the run ends when the module exits; a deadline that has passed is what the
\* module's next test sees whatever the control plane does in between, so the
\* control plane is left out from there on
Running == pc \notin {"done", "failed"} /\ ~wait.expired
SetLife(g, k, life) == [g EXCEPT !.Instances[k].LifecycleState = life]

\* the group launches a member of the current launch configuration while it
\* holds fewer than DesiredCapacity
LaunchUpTo(cap) ==
    /\ Running
    /\ Cardinality(Active(group)) < group.DesiredCapacity
    /\ nextId <= cap
    /\ group' = [group EXCEPT !.Instances =
                    Append(@, Instance(nextId, group.LaunchConfigurationName, "Pending"))]
    /\ nextId' = nextId + 1
    /\ UNCHANGED <<lbIn, lbOut, params, pc, loc, wait, logs>>
Launch == LaunchUpTo(MaxIds)

EnterService ==
    Running /\ \E k \in DOMAIN group.Instances :
        /\ group.Instances[k].LifecycleState = "Pending"
        /\ group' = SetLife(group, k, "InService")
        /\ UNCHANGED <<nextId, lbIn, lbOut, params, pc, loc, wait, logs>>

\* the group removes members while it holds more than DesiredCapacity
ScaleIn ==
    Running /\ \E k \in Active(group) :
        /\ Cardinality(Active(group)) > group.DesiredCapacity
        /\ group' = SetLife(group, k, "Terminating")
        /\ UNCHANGED <<nextId, lbIn, lbOut, params, pc, loc, wait, logs>>

\* a terminating member leaves the group and every balancer
Gone ==
    Running /\ \E k \in DOMAIN group.Instances :
        /\ group.Instances[k].LifecycleState = "Terminating"
        /\ group' = [group EXCEPT !.Instances = RemoveAt(@, k)]
        /\ lbIn' = [lb \in AllLBs |-> lbIn[lb] \ {group.Instances[k].InstanceId}]
        /\ lbOut' = [lb \in AllLBs |-> lbOut[lb] \ {group.Instances[k].InstanceId}]
        /\ UNCHANGED <<nextId, params, pc, loc, wait, logs>>

\* a balancer starts to report a member in service
LbUp ==
    Running /\ \E lb \in LBs(group), i \in Range(group.Instances) :
        /\ i.LifecycleState = "InService"
        /\ i.InstanceId \notin lbIn[lb]
        /\ i.InstanceId \notin lbOut[lb]
        /\ lbIn' = [lbIn EXCEPT ![lb] = @ \cup {i.InstanceId}]
        /\ UNCHANGED <<group, nextId, lbOut, params, pc, loc, wait, logs>>

\* a classic balancer finishes draining a deregistered member
LbDown ==
    Running /\ \E lb \in LBs(group) :
        \E id \in lbIn[lb] \cap lbOut[lb] :
            /\ lbIn' = [lbIn EXCEPT ![lb] = @ \ {id}]
            /\ UNCHANGED <<group, nextId, lbOut, params, pc, loc, wait, logs>>

\* the deadline of the poll-wait in progress passes while the module sleeps
Tick ==
    /\ Running
    /\ wait.polled
    /\ wait' = [wait EXCEPT !.expired = TRUE]
    /\ UNCHANGED <<env, params, pc, loc, logs>>

\* ---------------------------------------------- calls of the module ---
\* fail_json: the module exits, its locals are gone
Fail(e) == pc' = "failed" /\ loc' = [Loc0 EXCEPT !.err = e]

\* update_auto_scaling_group(**updatable_asg): logged, then applied or rejected
UpdateGroup(req, ok) ==
    /\ updLog' = Append(updLog, Sizes(req))
    /\ IF UpdateValid(req)
       THEN group' = ApplyUpdate(group, req) /\ ok
       ELSE group' = group /\ Fail("RemoteFault")

\* terminate_instance_in_auto_scaling_group: what the control plane does
TerminateMember(g, id, decrement) ==
    LET k == CHOOSE j \in DOMAIN g.Instances : g.Instances[j].InstanceId = id
    IN [SetLife(g, k, "Terminating") EXCEPT
           !.DesiredCapacity = IF decrement THEN @ - 1 ELSE @]
TerminateAccepted(g, id, decrement) ==
    /\ \E k \in Active(g) : g.Instances[k].InstanceId = id
    /\ decrement => g.DesiredCapacity - 1 >= g.MinSize

\* ------------------------------------------------------- poll-waits ---
WaitOn == wait' = [wait EXCEPT !.polled = TRUE]
Timeout == Fail("Timeout") /\ wait' = W0 /\ UNCHANGED <<env, params, logs>>

\* wait_for_new_inst(desired_size): read, then sleep and read again until
\* enough members are viable or the deadline has passed; then goes on with K
\* variant of new_inst_reached: the read is not looked at
new_inst_not_counted(asg, desired_size) == TRUE
new_inst_reached(asg, desired_size) ==
    desired_size = Absent \/ desired_size <= ViableCount(asg)
wait_for_new_inst(desired_size, K) ==
    IF ~wait.polled
    THEN IF new_inst_reached(get_asg_by_name, desired_size)
         THEN wait' = W0 /\ K
         ELSE WaitOn /\ UNCHANGED <<env, params, pc, loc, logs>>
    ELSE IF wait.expired
         THEN Timeout
         ELSE new_inst_reached(get_asg_by_name, desired_size) /\ wait' = W0 /\ K

\* the loops that poll and then sleep (wait_for_term_inst, elb_dreg and the
\* loop of wait_for_elb): Poll notes what the poll saw, Leave is the test of
\* the loop condition and of the deadline after the sleep
Poll(reached) ==
    /\ ~wait.seen
    /\ ~wait.expired
    /\ wait' = [wait EXCEPT !.polled = TRUE, !.seen = reached]
    /\ wait' # wait
    /\ UNCHANGED <<env, params, pc, loc, logs>>
\* variant of Leave: the deadline is not tested after the loop
LeaveNoDeadline(K) ==
    /\ wait.polled
    /\ wait.seen \/ wait.expired
    /\ wait' = W0 /\ K
\* variant of Leave: the loop ends on the awaited condition only
LeaveOnSuccessOnly(K) ==
    /\ wait.polled
    /\ wait.seen
    /\ wait' = W0 /\ K
Leave(K) ==
    /\ wait.polled
    /\ wait.seen \/ wait.expired
    /\ IF wait.expired THEN Timeout ELSE wait' = W0 /\ K

\* wait_for_term_inst
term_inst_left(asg, term_instances) ==
    \A i \in Range(asg.Instances) :
        i.InstanceId \in Ids(term_instances)
            => ~(i.LifecycleState = "Terminating" \/ i.HealthStatus = "Unhealthy")
wait_for_term_inst(term_instances, K) ==
    \/ Poll(term_inst_left(get_asg_by_name, term_instances))
    \/ Leave(K)

\* wait_for_elb: nothing to wait for unless the group is checked by its balancers
elb_reached(asg, reported, launch_config_name, min_size) ==
    elb_healthy(asg, reported, launch_config_name)
        >= (IF launch_config_name = None THEN asg.MinSize ELSE min_size)
wait_for_elb(launch_config_name, min_size, K) ==
    IF ~ElbMode(get_asg_by_name)
    THEN wait' = W0 /\ K
    ELSE \/ /\ ~wait.polled
            /\ IF elb_reached(get_asg_by_name, lbIn, launch_config_name, min_size)
               THEN wait' = W0 /\ K
               ELSE WaitOn /\ UNCHANGED <<env, params, pc, loc, logs>>
         \/ /\ wait.polled
            /\ Poll(elb_reached(get_asg_by_name, lbIn, launch_config_name, min_size))
         \/ Leave(K)

\* variant of dreg_count: nothing is counted
dreg_count_nothing(asg, reported, instance_id) == 0

\* elb_dreg: the poll of the balancers for one instance
dreg_count(asg, reported, instance_id) ==
    Cardinality({lb \in LBs(asg) : instance_id \in reported[lb]})
\* the balancers elb_dreg sends a deregister call to: the classic ones that
\* list the instance (a member not yet deregistered), and every target group
dreg_calls(asg, out, instance_id) ==
    SelectSeq(asg.LoadBalancerNames,
              LAMBDA lb : Member(asg, instance_id) /\ instance_id \notin out[lb])
        \o asg.TargetGroupARNs

\* ------------------------------------------------------------ main() ---
\* create_autoscaling_group when the group exists: the attributes given are
\* compared with the group's and, if one differs, the group is updated
CreateUpdate ==
    /\ pc = "create"
    /\ \E p \in SizeParams :
         LET asg == create_attrs(get_asg_by_name, params.launch_config_name, p)
             l == [loc EXCEPT !.wait_desired = p.desired_capacity]
         IN IF Sizes(asg) # Sizes(group)
               \/ asg.LaunchConfigurationName # group.LaunchConfigurationName
            THEN UpdateGroup(create_clamp(asg), pc' = "c_new" /\ loc' = l)
            ELSE pc' = "c_new" /\ loc' = l /\ UNCHANGED <<group, updLog>>
    /\ UNCHANGED <<nextId, lbIn, lbOut, params, wait, dregLog, termLog>>

\* wait_for_new_inst(..., desired_capacity) of create_autoscaling_group
CreateWaitNew ==
    /\ pc = "c_new"
    /\ wait_for_new_inst(loc.wait_desired,
           /\ pc' = "c_elb"
           /\ loc' = [loc EXCEPT !.wait_desired = Absent]
           /\ UNCHANGED <<env, params, logs>>)

\* after the wait, replace() starts and reads the group
CreateWaitElb ==
    /\ pc = "c_elb"
    /\ wait_for_elb(None, 0,
           /\ pc' = "r_new0"
           /\ loc' = [loc EXCEPT !.asg = get_asg_by_name]
           /\ UNCHANGED <<env, params, logs>>)

\* variant of Restore: the last update_size is left out
RestoreSkipped(l) ==
    /\ pc' = "done"
    /\ loc' = [l EXCEPT !.changed = TRUE]
    /\ UNCHANGED <<env, params, logs>>

\* ----------------------------------------------------------- replace ---
\* update_size(original sizes) and return (changed, asg)
Restore(l) ==
    /\ UpdateGroup(update_size(get_asg_by_name, l.max_size, l.min_size, l.desired_capacity),
           pc' = "done" /\ loc' = [l EXCEPT !.changed = TRUE])
    /\ UNCHANGED <<nextId, lbIn, lbOut, params, dregLog, termLog>>

\* replace() from the classification to the first wait after the scale-up
ReplaceInit ==
    LET asg == loc.asg
        instances == replace_targets(asg, params.replace_instances)
        cls == get_instances_by_lc(asg, params.lc_check, instances)
        num_new_inst_needed == asg.DesiredCapacity - Len(cls.new)
        batch_size == effective_batch_size(params.lc_check, params.replace_batch_size,
                                           num_new_inst_needed)
        l == [loc EXCEPT !.asg = <<>>, !.instances = instances,
                         !.initial_ids = Ids(asg.Instances),
                         !.updates_before = Len(updLog),
                         !.min_size = asg.MinSize, !.max_size = asg.MaxSize,
                         !.desired_capacity = asg.DesiredCapacity]
    IN IF params.lc_check /\ num_new_inst_needed = 0 /\ Len(cls.old) > 0
       THEN /\ pc' = "tb"
            /\ loc' = [l EXCEPT !.leftovers = TRUE, !.chunks = <<cls.old>>, !.chunk = 1]
            /\ UNCHANGED <<env, params, logs>>
       ELSE IF Len(cls.old) = 0
       THEN /\ pc' = "done"
            /\ loc' = [l EXCEPT !.changed = FALSE]
            /\ UNCHANGED <<env, params, logs>>
       ELSE /\ UpdateGroup(update_size(get_asg_by_name, asg.MaxSize + batch_size,
                                       asg.MinSize + batch_size,
                                       asg.DesiredCapacity + batch_size),
                   /\ pc' = "r_new1"
                   /\ loc' = [l EXCEPT !.batch_size = batch_size,
                                       !.minimal_instance = Len(cls.new) + batch_size])
            /\ UNCHANGED <<nextId, lbIn, lbOut, params, dregLog, termLog>>

ReplaceStart ==
    /\ pc = "r_new0"
    /\ wait_for_new_inst(loc.asg.MinSize, ReplaceInit)

ScaleUpWaitNew ==
    /\ pc = "r_new1"
    /\ wait_for_new_inst(loc.min_size + loc.batch_size,
           pc' = "r_elb1" /\ UNCHANGED <<env, params, loc, logs>>)

\* the group is read again and cut into chunks; no chunk: straight to the end
BeginLoop ==
    LET instances == replace_targets(get_asg_by_name, params.replace_instances)
        chunks == get_chunks(instances, loc.batch_size)
        l == [loc EXCEPT !.instances = instances, !.chunks = chunks, !.chunk = 1]
    IN IF Len(chunks) = 0
       THEN Restore(l)
       ELSE pc' = "tb" /\ loc' = l /\ UNCHANGED <<env, params, logs>>

ScaleUpWaitElb ==
    /\ pc = "r_elb1"
    /\ wait_for_elb(params.launch_config_name, loc.minimal_instance, BeginLoop)

\* terminate_batch: read the group, decide, reset MinSize if no new instance
\* is needed any more
TerminateBatch ==
    /\ pc = "tb"
    /\ LET asg == get_asg_by_name
           tb == terminate_batch(asg, params, loc.min_size, loc.desired_capacity,
                                 loc.chunks[loc.chunk], loc.instances, loc.leftovers)
           l == [loc EXCEPT !.to_terminate = tb.instances_to_terminate,
                            !.term_instances = tb.instances_to_terminate,
                            !.decrement_capacity = tb.decrement_capacity,
                            !.break_early = tb.break_loop,
                            !.desired_size = tb.desired_size]
       IN IF tb.err # None
          THEN Fail(tb.err) /\ UNCHANGED <<group, updLog>>
          ELSE IF tb.reset
          THEN UpdateGroup(reset_min_size(asg, loc.min_size), pc' = "inst" /\ loc' = l)
          ELSE pc' = "inst" /\ loc' = l /\ UNCHANGED <<group, updLog>>
    /\ UNCHANGED <<nextId, lbIn, lbOut, params, wait, dregLog, termLog>>

\* terminate_instance_in_auto_scaling_group for the head of the list
TerminateWith(instance_id, after) ==
    /\ termLog' = Append(termLog, [InstanceId |-> instance_id,
                                   lc |-> LcOf(group, instance_id),
                                   decrement |-> loc.decrement_capacity])
    /\ IF TerminateAccepted(group, instance_id, loc.decrement_capacity)
       THEN /\ group' = after
            /\ pc' = "inst"
            /\ loc' = [loc EXCEPT !.to_terminate = Tail(@)]
       ELSE /\ group' = group
            /\ \/ Fail("RemoteFault")
               \/ /\ Member(group, instance_id)
                  /\ \A k \in Active(group) : group.Instances[k].InstanceId # instance_id
                  /\ pc' = "inst"
                  /\ loc' = [loc EXCEPT !.to_terminate = Tail(@)]
    /\ UNCHANGED <<nextId, lbIn, lbOut, params, updLog, dregLog>>
Terminate(instance_id) ==
    TerminateWith(instance_id, TerminateMember(group, instance_id, loc.decrement_capacity))

\* terminate_batch returns; replace() goes on to its waits
BatchReturn ==
    /\ IF loc.leftovers
       THEN pc' = "done" /\ loc' = [loc EXCEPT !.changed = TRUE]
       ELSE /\ pc' = "r_term"
            /\ loc' = [loc EXCEPT !.minimal_instance =
                          IF loc.break_early THEN @ ELSE @ + Len(loc.chunks[loc.chunk])]
    /\ UNCHANGED <<env, params, wait, logs>>

\* the loop over instances_to_terminate: elb_dreg up to its poll loop, and
\* the terminate call at once when elb_dreg has nothing to do
Deregister(instance_id) ==
    LET calls == dreg_calls(get_asg_by_name, lbOut, instance_id)
    IN /\ dregLog' = dregLog \o [k \in DOMAIN calls |->
                                    [lb |-> calls[k], InstanceId |-> instance_id]]
       /\ lbOut' = [lb \in AllLBs |-> IF lb \in Range(calls)
                                      THEN lbOut[lb] \cup {instance_id} ELSE lbOut[lb]]
       /\ lbIn' = [lb \in AllLBs |-> IF lb \in Range(group.TargetGroupARNs)
                                     THEN lbIn[lb] \ {instance_id} ELSE lbIn[lb]]
       /\ pc' = "dreg"
       /\ UNCHANGED <<group, nextId, params, loc, wait, updLog, termLog>>

NextInstance ==
    /\ pc = "inst"
    /\ IF loc.to_terminate = <<>>
       THEN BatchReturn
       ELSE IF ElbMode(get_asg_by_name)
       THEN Deregister(Head(loc.to_terminate).InstanceId)
       ELSE Terminate(Head(loc.to_terminate).InstanceId) /\ UNCHANGED wait

DeregisterWait ==
    /\ pc = "dreg"
    /\ \/ Poll(dreg_count(get_asg_by_name, lbIn, Head(loc.to_terminate).InstanceId) = 0)
       \/ Leave(Terminate(Head(loc.to_terminate).InstanceId))

LoopWaitTerm ==
    /\ pc = "r_term"
    /\ wait_for_term_inst(loc.term_instances,
           pc' = "r_new2" /\ UNCHANGED <<env, params, loc, logs>>)

LoopWaitNew ==
    /\ pc = "r_new2"
    /\ wait_for_new_inst(loc.desired_size,
           pc' = "r_elb2" /\ UNCHANGED <<env, params, loc, logs>>)

\* end of one iteration: next chunk, or the original sizes are restored
LoopWaitElb ==
    /\ pc = "r_elb2"
    /\ wait_for_elb(params.launch_config_name, loc.minimal_instance,
           IF loc.break_early \/ loc.chunk = Len(loc.chunks)
           THEN Restore(loc)
           ELSE /\ pc' = "tb"
                /\ loc' = [loc EXCEPT !.chunk = @ + 1]
                /\ UNCHANGED <<env, params, logs>>)

Module ==
    \/ CreateUpdate \/ CreateWaitNew \/ CreateWaitElb
    \/ ReplaceStart \/ ScaleUpWaitNew \/ ScaleUpWaitElb
    \/ TerminateBatch \/ NextInstance \/ DeregisterWait
    \/ LoopWaitTerm \/ LoopWaitNew \/ LoopWaitElb

ControlPlane == Launch \/ EnterService \/ ScaleIn \/ Gone \/ LbUp \/ LbDown

Next == Module \/ ControlPlane \/ Tick

Spec == Init /\ [][Next]_vars

\* ------------------------------------ the health aggregator on its own ---
\* elb_healthy applied to any group and any reports of its balancers: up to
\* two classic load balancers and a target group, each reporting any set of
\* the members as in service
AggLbConfigs ==
    {c \in [LoadBalancerNames : {<<>>, <<"elb-1">>, <<"elb-1", "elb-2">>},
            TargetGroupARNs : {<<>>, <<"tg-1">>}] :
        Len(c.LoadBalancerNames) + Len(c.TargetGroupARNs) > 0}

InitAgg ==
    /\ \E n \in 1..MaxSize, cfg \in AggLbConfigs :
         \E lcs \in [1..n -> {LcOld, LcCur}], lives \in [1..n -> {"InService", "Pending"}] :
            group = [MinSize |-> 1, MaxSize |-> n, DesiredCapacity |-> n,
                     LaunchConfigurationName |-> LcCur,
                     HealthCheckType |-> "ELB",
                     LoadBalancerNames |-> cfg.LoadBalancerNames,
                     TargetGroupARNs |-> cfg.TargetGroupARNs,
                     Instances |-> [k \in 1..n |-> Instance(k, lcs[k], lives[k])]]
    /\ nextId = group.DesiredCapacity + 1
    /\ lbIn \in [AllLBs -> SUBSET Ids(group.Instances)]
    /\ \A lb \in AllLBs \ LBs(group) : lbIn[lb] = {}
    /\ lbOut = [lb \in AllLBs |-> {}]
    /\ \E lc \in {None, LcCur} :
         params = [launch_config_name |-> lc, replace_batch_size |-> 1,
                   lc_check |-> TRUE, replace_instances |-> <<>>]
    /\ pc = "agg"
    /\ loc = Loc0
    /\ wait = W0
    /\ updLog = <<>>
    /\ dregLog = <<>>
    /\ termLog = <<>>

Aggregate ==
    /\ pc = "agg"
    /\ pc' = "agg_done"
    /\ loc' = [loc EXCEPT
                  !.healthy_instances =
                      elb_healthy(get_asg_by_name, lbIn, params.launch_config_name),
                  !.described =
                      describe_calls(get_asg_by_name, params.launch_config_name)]
    /\ UNCHANGED <<env, params, wait, logs>>

NextAgg == Aggregate

SpecAgg == InitAgg /\ [][NextAgg]_vars

\* -------------------------------------------------------------- claims ---
\* what each attached balancer or target group reports of the candidates
PerResourceHealthy(lb) ==
    lbIn[lb] \cap healthy_candidates(group, params.launch_config_name)

\* C4: the count the aggregator returns never exceeds the healthy count of
\* any attached balancer or target group, whatever they report
AggWithinSmallestCount ==
    pc = "agg_done" =>
        \A lb \in LBs(group) : loc.healthy_instances <= Cardinality(PerResourceHealthy(lb))

\* the replace session: from the classification of the snapshot to the exit
InSession == pc \in {"r_new1", "r_elb1", "tb", "inst", "dreg", "r_term", "r_new2", "r_elb2"}
Terminated == termLog' # termLog
ReplaceAll == params.replace_instances = <<>>
OriginalSizes == <<loc.min_size, loc.max_size, loc.desired_capacity>>

\* C1: a TerminateMember call of the session made while at least the original
\* MinSize members are viable leaves at least that many viable
TerminateKeepsOriginalMin ==
    [][(Terminated /\ ViableCount(group) >= loc.min_size)
          => ViableCount(group') >= loc.min_size]_vars

\* C2: under lc_check with replace_all_instances, when the session is done no
\* member that is not already terminating has another launch configuration
\* than the group's
AllCurrentAtDone ==
    (pc = "done" /\ params.lc_check /\ ReplaceAll) =>
        \A i \in Range(group.Instances) :
            i.LifecycleState # "Terminating"
                => i.LaunchConfigurationName = group.LaunchConfigurationName

TimeoutAborts ==
    [][(wait.expired \/ pc = "failed")
          => /\ pc' = "failed"
             /\ loc'.err = IF pc = "failed" THEN loc.err ELSE "Timeout"
             /\ UNCHANGED <<group, lbIn, lbOut, updLog, dregLog, termLog>>]_vars

TimedOutInSession == pc = "failed" /\ loc.err = "Timeout" /\ Len(updLog) > 0 /\ Len(termLog) > 0

\* C6: under lc_check, replace() on a snapshot whose members all have the
\* group's launch configuration returns changed = False without any
\* UpdateGroup, deregister or TerminateMember call, the group left as it is
AllMatch(asg) ==
    \A i \in Range(asg.Instances) : i.LaunchConfigurationName = asg.LaunchConfigurationName
NothingToReplace ==
    [][(pc = "r_new0" /\ pc' \notin {"r_new0", "failed"} /\ params.lc_check /\ AllMatch(loc.asg))
          => /\ pc' = "done"
             /\ ~loc'.changed
             /\ UNCHANGED <<group, lbIn, lbOut, updLog, dregLog, termLog>>]_vars

ReturnedUnchanged ==
    /\ pc = "done"
    /\ ~loc.changed
    /\ params.lc_check
    /\ loc.desired_capacity > 0
    /\ group.Instances # <<>>
    /\ AllMatch(group)

\* C7: when a session that scaled the group up is done, the last UpdateGroup
\* request carries the original MinSize, MaxSize and DesiredCapacity, and
\* these are the group's
RestoredAtDone ==
    (pc = "done" /\ loc.changed /\ ~loc.leftovers) =>
        /\ Len(updLog) >= 2
        /\ updLog[Len(updLog)] = OriginalSizes
        /\ Sizes(group) = OriginalSizes

DoneAfterScaleUp ==
    /\ pc = "done" /\ loc.changed /\ ~loc.leftovers
    /\ Len(termLog) > 0
    /\ \E k \in DOMAIN updLog : updLog[k] # OriginalSizes

\* C8: with the group checked by its balancers, a TerminateMember call is made
\* from elb_dreg's loop for that instance, left on a poll that counted no
\* balancer before the deadline; a deregister call was sent for the instance
\* if it is a member, and no balancer or target group of the group reports it
\* in service when the call is made
DeregisteredBeforeTerminate ==
    [][(Terminated /\ ElbMode(group))
          => /\ pc = "dreg"
             /\ wait.seen /\ ~wait.expired
             /\ termLog'[Len(termLog')].InstanceId = Head(loc.to_terminate).InstanceId
             /\ Member(group, Head(loc.to_terminate).InstanceId)
                    => \E k \in DOMAIN dregLog :
                          dregLog[k].InstanceId = Head(loc.to_terminate).InstanceId
             /\ \A lb \in LBs(group) : Head(loc.to_terminate).InstanceId \notin lbIn[lb]]_vars

TerminatedAfterDeregister ==
    /\ ElbMode(group)
    /\ Len(termLog) > 0
    /\ \E k \in DOMAIN dregLog : dregLog[k].InstanceId = termLog[1].InstanceId

\* C9: under lc_check no TerminateMember call names a member that has the
\* group's launch configuration
NoCurrentTerminated ==
    params.lc_check =>
        \A k \in DOMAIN termLog : termLog[k].lc # group.LaunchConfigurationName

OldTerminatedUnderLcCheck ==
    /\ params.lc_check
    /\ Len(termLog) > 0
    /\ \E i \in Range(group.Instances) :
          i.LaunchConfigurationName = group.LaunchConfigurationName

\* C10: with replace_instances given, every TerminateMember call names an id
\* of the list
OnlyNamedTerminated ==
    ~ReplaceAll =>
        \A k \in DOMAIN termLog : InSeq(termLog[k].InstanceId, params.replace_instances)

\* C11: under the identity policy, when replace() is done every id of
\* replace_instances that is a member of the group was passed to
\* TerminateMember
NamedMembersTerminated ==
    (pc = "done" /\ ~ReplaceAll /\ ~params.lc_check) =>
        \A k \in DOMAIN params.replace_instances :
            Member(group, params.replace_instances[k])
                => \E t \in DOMAIN termLog :
                      termLog[t].InstanceId = params.replace_instances[k]

\* C12: under the identity policy with replace_all_instances, at the start of
\* every batch a member is classified new iff its id is not among the ids of
\* the members read when the session began
NewIffNotInitial ==
    (pc = "tb" /\ ~params.lc_check /\ ReplaceAll) =>
        LET cls == get_instances_by_lc(get_asg_by_name, params.lc_check, loc.instances)
        IN \A i \in Range(group.Instances) :
              InSeq(i, cls.new) <=> i.InstanceId \notin loc.initial_ids

\* num_new_inst_needed as terminate_batch finds it in the group it reads
BatchNeeded ==
    loc.desired_capacity
        - Len(get_instances_by_lc(get_asg_by_name, params.lc_check, loc.instances).new)

\* C13: the flag terminate_batch settles on is true iff no new instance is
\* needed in the group it has just read and the pass is not the leftover
\* pass, and every TerminateMember call of the batch carries that flag
DecrementOnlyWhenNoneNeeded ==
    [][/\ (pc = "tb" /\ pc' = "inst")
             => (loc'.decrement_capacity <=> (BatchNeeded = 0 /\ ~loc.leftovers))
       /\ (pc \in {"inst", "dreg"} /\ pc' \in {"inst", "dreg"})
             => loc'.decrement_capacity = loc.decrement_capacity
       /\ Terminated
             => termLog'[Len(termLog')].decrement = loc.decrement_capacity]_vars

TerminatedWithAndWithoutDecrement ==
    /\ \E k \in DOMAIN termLog : termLog[k].decrement
    /\ \E k \in DOMAIN termLog : ~termLog[k].decrement

\* num_new_inst_needed as replace() finds it in the group it read first
InitNeeded ==
    loc.asg.DesiredCapacity
        - Len(get_instances_by_lc(loc.asg, params.lc_check,
                                  replace_targets(loc.asg, params.replace_instances)).new)

\* C14: when replace() scales the group up and fewer new instances are needed
\* than replace_batch_size, the batch size it goes on with is the number
\* needed and the three sizes are raised by that number, under either policy
BatchSizeIsNeededWhenSmaller ==
    [][(pc = "r_new0" /\ pc' = "r_new1" /\ InitNeeded < params.replace_batch_size)
          => /\ loc'.batch_size = InitNeeded
             /\ updLog'[Len(updLog')] = <<loc.asg.MinSize + InitNeeded,
                                          loc.asg.MaxSize + InitNeeded,
                                          loc.asg.DesiredCapacity + InitNeeded>>]_vars

\* ------------------------------------------------ the worked scenarios ---
\* a session of replace() on a group with fixed sizes min = max = desired =
\* ScenarioSize, no balancer, EC2 health checks, replace_batch_size 1 and
\* lc_check on; the members are of either launch configuration in any order
ScenarioSize == 5

ScenarioGroups ==
    {[MinSize |-> ScenarioSize, MaxSize |-> ScenarioSize,
      DesiredCapacity |-> ScenarioSize, LaunchConfigurationName |-> LcCur,
      HealthCheckType |-> "EC2", LoadBalancerNames |-> <<>>, TargetGroupARNs |-> <<>>,
      Instances |-> [k \in 1..ScenarioSize |-> Instance(k, lcs[k], "InService")]] :
        lcs \in [1..ScenarioSize -> {LcOld, LcCur}]}

InitScenario ==
    /\ group \in ScenarioGroups
    /\ nextId = ScenarioSize + 1
    /\ lbIn = [lb \in AllLBs |-> {}]
    /\ lbOut = [lb \in AllLBs |-> {}]
    /\ params = [launch_config_name |-> LcCur, replace_batch_size |-> 1,
                 lc_check |-> TRUE, replace_instances |-> <<>>]
    /\ pc = "r_new0"
    /\ loc = [Loc0 EXCEPT !.asg = group]
    /\ wait = W0
    /\ updLog = <<>>
    /\ dregLog = <<>>
    /\ termLog = <<>>

LaunchScenario == LaunchUpTo(2 * ScenarioSize + 1)

NextScenario ==
    \/ ReplaceStart \/ ScaleUpWaitNew \/ ScaleUpWaitElb
    \/ TerminateBatch \/ NextInstance
    \/ LoopWaitTerm \/ LoopWaitNew \/ LoopWaitElb
    \/ LaunchScenario \/ EnterService \/ Gone \/ Tick

SpecScenario == InitScenario /\ [][NextScenario]_vars

\* the members of the scenario's group that were of an old launch
\* configuration when the session began: they are still members, or the
\* session has terminated them
OldAtStart ==
    {id \in 1..ScenarioSize :
        \/ LcOf(group, id) = LcOld
        \/ \E t \in DOMAIN termLog : termLog[t].InstanceId = id /\ termLog[t].lc = LcOld}

AllOldAtStart == Cardinality(OldAtStart) = ScenarioSize
Triple(n) == <<n, n, n>>

\* C15: in the scenario with every member old, a session that returns has
\* run ScenarioSize iterations, has scaled the group up once, by one, has
\* terminated the old members one per iteration, the last one only with the
\* capacity decrement after MinSize went back to the original, and has then
\* restored the sizes: the group holds ScenarioSize members, all of the
\* current launch configuration, and changed is true
AllOldReplacedWithOneScaleUp ==
    (pc = "done" /\ AllOldAtStart) =>
        /\ loc.chunk = ScenarioSize
        /\ updLog = <<Triple(ScenarioSize + 1),
                      <<ScenarioSize, ScenarioSize + 1, ScenarioSize + 1>>,
                      Triple(ScenarioSize)>>
        /\ Len(termLog) = ScenarioSize
        /\ \A k \in DOMAIN termLog :
              /\ termLog[k].InstanceId = k
              /\ termLog[k].decrement <=> k = ScenarioSize
        /\ Sizes(group) = Triple(ScenarioSize)
        /\ Cardinality(Active(group)) = ScenarioSize
        /\ \A k \in Active(group) :
              group.Instances[k].LaunchConfigurationName = LcCur
        /\ loc.changed

AllOldDone == pc = "done" /\ AllOldAtStart /\ loc.changed

\* C15 as stated: every iteration scales the group up by one and, after one
\* terminate call with the capacity decrement, back down
ScaledUpAndDownEachIteration ==
    (pc = "done" /\ AllOldAtStart) =>
        /\ loc.chunk = ScenarioSize
        /\ Len(updLog) = 2 * ScenarioSize
        /\ \A k \in DOMAIN updLog :
              updLog[k] = Triple(ScenarioSize + (k % 2))
        /\ Len(termLog) = ScenarioSize
        /\ \A k \in DOMAIN termLog : termLog[k].decrement
        /\ Sizes(group) = Triple(ScenarioSize)
        /\ loc.changed

\* C16: in the scenario with two old members, whatever their places among
\* the members, a session that returns has run exactly two iterations of the
\* loop, no terminate call before the second one carries the capacity
\* decrement, and no size sent to the group exceeds the original by more
\* than one
TwoOldInTwoIterations ==
    Cardinality(OldAtStart) = 2 =>
        /\ pc = "done" => loc.chunk = 2
        /\ \A k \in DOMAIN termLog : termLog[k].decrement => k = 2
        /\ \A k \in DOMAIN updLog :
              \A j \in 1..3 : updLog[k][j] <= ScenarioSize + 1

\* ------------------------------------------- the classifier on its own ---
\* get_instances_by_lc run once on a group of up to MaxSize members, in
\* service or terminating, of either launch configuration, under either
\* policy, with the initial list replace() would hand it: the members of an
\* earlier read of the group, or the ids named in replace_instances
EarlierReads ==
    UNION {{[k \in 1..m |-> Instance(k, lcs[k], "InService")] :
               lcs \in [1..m -> {LcOld, LcCur}]} : m \in 0..MaxSize}

InitClassify ==
    /\ \E n \in 0..MaxSize :
         \E lcs \in [1..n -> {LcOld, LcCur}], lives \in [1..n -> {"InService", "Terminating"}] :
            group = [MinSize |-> 0, MaxSize |-> MaxSize, DesiredCapacity |-> n,
                     LaunchConfigurationName |-> LcCur,
                     HealthCheckType |-> "EC2",
                     LoadBalancerNames |-> <<>>, TargetGroupARNs |-> <<>>,
                     Instances |-> [k \in 1..n |-> Instance(k + 1, lcs[k], lives[k])]]
    /\ nextId = MaxSize + 2
    /\ lbIn = [lb \in AllLBs |-> {}]
    /\ lbOut = [lb \in AllLBs |-> {}]
    /\ \E lcc \in BOOLEAN, rl \in ReplaceLists :
         params = [launch_config_name |-> LcCur, replace_batch_size |-> 1,
                   lc_check |-> lcc, replace_instances |-> rl]
    /\ pc = "classify"
    /\ \E read \in EarlierReads :
         loc = [Loc0 EXCEPT !.instances =
                   replace_targets([Instances |-> read], params.replace_instances)]
    /\ wait = W0
    /\ updLog = <<>>
    /\ dregLog = <<>>
    /\ termLog = <<>>

Classify ==
    /\ pc = "classify"
    /\ pc' = "classified"
    /\ LET cls == get_instances_by_lc(get_asg_by_name, params.lc_check, loc.instances)
       IN loc' = [loc EXCEPT !.new_instances = cls.new, !.old_instances = cls.old]
    /\ UNCHANGED <<env, params, wait, logs>>

NextClassify == Classify

SpecClassify == InitClassify /\ [][NextClassify]_vars

\* C17: for every group, either policy and every initial list,
\* get_instances_by_lc returns two lists that are disjoint and hold every
\* member of the group and nothing else, each member once
ClassifyPartitions ==
    pc = "classified" =>
        LET all == loc.new_instances \o loc.old_instances
        IN /\ Range(loc.new_instances) \cap Range(loc.old_instances) = {}
           /\ Range(all) = Range(group.Instances)
           /\ \A i \in Range(group.Instances) :
                 Cardinality({k \in DOMAIN all : all[k] = i}) = 1

ClassifiedBothWays ==
    /\ pc = "classified" /\ ~params.lc_check
    /\ loc.new_instances # <<>> /\ loc.old_instances # <<>>
    /\ \E i \in Range(loc.instances) : ~InSeq(i, group.Instances)

\* the mutating calls replace() has issued so far
SessionCalls == (Len(updLog) - loc.updates_before) + Len(dregLog) + Len(termLog)

\* C18: replace() returns changed = true only after a mutating call of its
\* own that the control plane accepted, and changed = false only when it
\* has issued none
ChangedOnlyAfterMutation ==
    pc = "done" => (loc.changed <=> SessionCalls > 0)

\* C19: during a session of replace() the sizes of the group stay ordered,
\* MinSize <= DesiredCapacity <= MaxSize, after every update and terminate
\* call, and a terminate call with the capacity decrement is issued only when
\* MinSize is back at the original and below DesiredCapacity
BoundsOrderedAndDecrementSafe ==
    [][/\ InSession => (group'.MinSize <= group'.DesiredCapacity
                        /\ group'.DesiredCapacity <= group'.MaxSize)
       /\ (Terminated /\ termLog'[Len(termLog')].decrement)
             => (group.MinSize = loc.min_size
                 /\ group.DesiredCapacity - 1 >= group.MinSize)]_vars

\* C20: a poll-wait exits with the Timeout error only if no poll it took
\* before its deadline saw the awaited condition
TimeoutOnlyIfNeverSeen ==
    [][(pc # "failed" /\ pc' = "failed" /\ loc'.err = "Timeout") => ~wait.seen]_vars

\* C21: the count wait_for_elb is asked to wait for never exceeds the new
\* members replace() found first, plus the batch size, plus the members
\* terminated so far
NewAtStart == ScenarioSize - Cardinality(OldAtStart)
ElbThresholdAttainable ==
    pc \in {"r_elb1", "r_elb2"} =>
        loc.minimal_instance <= NewAtStart + loc.batch_size + Len(termLog)

\* C22: within one session no instance id is passed to the terminate call
\* more than once
TerminatedAtMostOnce ==
    \A j, k \in DOMAIN termLog :
        termLog[j].InstanceId = termLog[k].InstanceId => j = k

\* --------------------------------------- a control plane that shows late ---
\* the same session against a group whose description shows a terminate
\* request late: the call is accepted, the member stays listed in service
\* for a while and is shown as terminating afterwards (wait_for_term_inst is
\* written for that case). EC2 health checks, no balancer
TerminateAsked(g, id, decrement) ==
    [g EXCEPT !.DesiredCapacity = IF decrement THEN @ - 1 ELSE @]

InitLate ==
    /\ \E mn \in 1..MaxSize, mx \in 1..MaxSize, dc \in 1..MaxSize :
         /\ mn <= dc /\ dc <= mx
         /\ \E lcs \in [1..dc -> {LcOld, LcCur}] :
              group = [MinSize |-> mn, MaxSize |-> mx, DesiredCapacity |-> dc,
                       LaunchConfigurationName |-> LcCur,
                       HealthCheckType |-> "EC2",
                       LoadBalancerNames |-> <<>>, TargetGroupARNs |-> <<>>,
                       Instances |-> [k \in 1..dc |-> Instance(k, lcs[k], "InService")]]
    /\ nextId = Len(group.Instances) + 1
    /\ lbIn = [lb \in AllLBs |-> {}]
    /\ lbOut = [lb \in AllLBs |-> {}]
    /\ \E b \in BatchSizes, lcc \in BOOLEAN, rl \in ReplaceLists :
         params = [launch_config_name |-> LcCur, replace_batch_size |-> b,
                   lc_check |-> lcc, replace_instances |-> rl]
    /\ pc = "r_new0"
    /\ loc = [Loc0 EXCEPT !.asg = group]
    /\ wait = W0
    /\ updLog = <<>>
    /\ dregLog = <<>>
    /\ termLog = <<>>

NextInstanceLate ==
    /\ pc = "inst"
    /\ IF loc.to_terminate = <<>>
       THEN BatchReturn
       ELSE LET instance_id == Head(loc.to_terminate).InstanceId
            IN /\ \E after \in
                      IF TerminateAccepted(group, instance_id, loc.decrement_capacity)
                      THEN {TerminateMember(group, instance_id, loc.decrement_capacity),
                            TerminateAsked(group, instance_id, loc.decrement_capacity)}
                      ELSE {group} :
                    TerminateWith(instance_id, after)
               /\ UNCHANGED wait

\* the description catches up: a member the session asked to terminate is
\* shown as terminating
ShowTerminating ==
    Running /\ \E k \in DOMAIN group.Instances :
        /\ group.Instances[k].LifecycleState = "InService"
        /\ \E t \in DOMAIN termLog : termLog[t].InstanceId = group.Instances[k].InstanceId
        /\ group' = SetLife(group, k, "Terminating")
        /\ UNCHANGED <<nextId, lbIn, lbOut, params, pc, loc, wait, logs>>

NextLate ==
    \/ ReplaceStart \/ ScaleUpWaitNew \/ ScaleUpWaitElb
    \/ TerminateBatch \/ NextInstanceLate
    \/ LoopWaitTerm \/ LoopWaitNew \/ LoopWaitElb
    \/ Launch \/ EnterService \/ ShowTerminating \/ Gone \/ Tick

SpecLate == InitLate /\ [][NextLate]_vars

\* ------------------------------------------- a group with a surplus ---
\* the same session on a group that may list more members than it desires:
\* its DesiredCapacity was lowered (by this task's desired_capacity, or by
\* anyone) and the members beyond it are not scaled in yet. EC2 health
\* checks, no balancer, replace_all_instances
InitSurplus ==
    /\ \E mn \in 1..MaxSize, mx \in 1..MaxSize, dc \in 1..MaxSize :
         /\ mn <= dc /\ dc <= mx
         /\ \E n \in dc..(MaxSize + 1) :
              \E lcs \in [1..n -> {LcOld, LcCur}] :
                 group = [MinSize |-> mn, MaxSize |-> mx, DesiredCapacity |-> dc,
                          LaunchConfigurationName |-> LcCur,
                          HealthCheckType |-> "EC2",
                          LoadBalancerNames |-> <<>>, TargetGroupARNs |-> <<>>,
                          Instances |-> [k \in 1..n |-> Instance(k, lcs[k], "InService")]]
    /\ nextId = Len(group.Instances) + 1
    /\ lbIn = [lb \in AllLBs |-> {}]
    /\ lbOut = [lb \in AllLBs |-> {}]
    /\ \E b \in BatchSizes, lcc \in BOOLEAN :
         params = [launch_config_name |-> LcCur, replace_batch_size |-> b,
                   lc_check |-> lcc, replace_instances |-> <<>>]
    /\ pc = "r_new0"
    /\ loc = [Loc0 EXCEPT !.asg = group]
    /\ wait = W0
    /\ updLog = <<>>
    /\ dregLog = <<>>
    /\ termLog = <<>>

NextSurplus ==
    \/ ReplaceStart \/ ScaleUpWaitNew \/ ScaleUpWaitElb
    \/ TerminateBatch \/ NextInstance
    \/ LoopWaitTerm \/ LoopWaitNew \/ LoopWaitElb
    \/ Launch \/ EnterService \/ ScaleIn \/ Gone \/ Tick

SpecSurplus == InitSurplus /\ [][NextSurplus]_vars

\* the terminate calls made so far in the batch at hand
BatchCalls == Len(loc.term_instances) - Len(loc.to_terminate)

\* C23: in an iteration of the main loop, the terminate call is issued for
\* replace_batch_size members at most
BatchWithinBatchSize ==
    (pc \in {"inst", "dreg", "r_term"} /\ ~loc.leftovers)
        => BatchCalls <= params.replace_batch_size

Raises(req) ==
    \/ req[1] > group.MinSize \/ req[2] > group.MaxSize \/ req[3] > group.DesiredCapacity

\* C24: the one update call of a session that raises a size is the scale-up,
\* which sends the original sizes plus the batch size in use, a number from 1
\* to replace_batch_size; and during the session every size of the group lies
\* between its original and its original plus replace_batch_size
SingleBoundedScaleUp ==
    [][/\ (updLog' # updLog /\ pc = "r_new0")
             => /\ loc'.batch_size \in 1..params.replace_batch_size
                /\ updLog'[Len(updLog')] = <<loc.asg.MinSize + loc'.batch_size,
                                             loc.asg.MaxSize + loc'.batch_size,
                                             loc.asg.DesiredCapacity + loc'.batch_size>>
       /\ (updLog' # updLog /\ InSession) => ~Raises(updLog'[Len(updLog')])
       /\ (InSession /\ pc' # "failed")
             => \A k \in 1..3 :
                   /\ OriginalSizes[k] <= Sizes(group')[k]
                   /\ Sizes(group')[k] <= OriginalSizes[k] + params.replace_batch_size]_vars

\* C25: a batch of the main loop is reached only through the two waits: the
\* wait for viable members ends on a read that shows at least MinSize (the
\* raised one) viable members, and where the balancers check the health, the
\* wait that follows ends after a poll that counted at least
\* minimal_instance healthy instances of the current launch configuration;
\* the terminate calls of the loop are made in a batch reached that way
HealthGateBeforeTerminate ==
    [][/\ (pc \in {"r_new1", "r_new2"} /\ pc' \in {"r_elb1", "r_elb2"})
             => ViableCount(group) >= group.MinSize
       /\ (pc \in {"r_elb1", "r_elb2"} /\ pc' = "tb" /\ ElbMode(group))
             => \/ wait.seen
                \/ elb_reached(group, lbIn, params.launch_config_name, loc.minimal_instance)
       /\ (pc # "tb" /\ pc' = "tb" /\ ~loc'.leftovers) => pc \in {"r_elb1", "r_elb2"}
       /\ (pc # pc' /\ pc' = "r_elb1") => pc = "r_new1"
       /\ (pc # pc' /\ pc' = "r_elb2") => pc = "r_new2"
       /\ (pc # pc' /\ pc' = "inst") => pc \in {"tb", "dreg"}
       /\ Terminated => pc \in {"inst", "dreg"}]_vars

TerminatedBehindElbGate ==
    /\ pc = "inst" /\ ~loc.leftovers /\ loc.chunk >= 2
    /\ ElbMode(group)
    /\ Len(termLog) >= 2

\* C26: under lc_check, a session that begins with needed = 0 and old
\* members sends no update call, issues the terminate call for every old
\* member it read that the group has not removed by itself, each without
\* the capacity decrement, and returns changed = true with the sizes of the
\* group as they were
ShortCircuitTerminatesAllOld ==
    (pc = "done" /\ loc.leftovers) =>
        /\ loc.changed
        /\ Len(updLog) = loc.updates_before
        /\ Sizes(group) = OriginalSizes
        /\ \A t \in DOMAIN termLog : ~termLog[t].decrement
        /\ \A i \in Range(loc.chunks[1]) :
              \/ \E t \in DOMAIN termLog : termLog[t].InstanceId = i.InstanceId
              \/ \A k \in Active(group) : group.Instances[k].InstanceId # i.InstanceId

\* a session of replace() on a group at rest (as many members as desired,
\* all in service), with any of the balancer configurations. The module
\* goes on whenever it can (it is one sequential program whose calls
\* return), and the clock goes on during a poll-wait: its deadline passes
\* unless the wait ends before
SessionOn(cfgs) ==
    /\ \E mn \in 1..MaxSize, mx \in 1..MaxSize, dc \in 1..MaxSize, cfg \in cfgs :
         /\ mn <= dc /\ dc <= mx
         /\ \E lcs \in [1..dc -> {LcOld, LcCur}] :
              group = [MinSize |-> mn, MaxSize |-> mx, DesiredCapacity |-> dc,
                       LaunchConfigurationName |-> LcCur,
                       HealthCheckType |-> cfg.HealthCheckType,
                       LoadBalancerNames |-> cfg.LoadBalancerNames,
                       TargetGroupARNs |-> cfg.TargetGroupARNs,
                       Instances |-> [k \in 1..dc |-> Instance(k, lcs[k], "InService")]]
    /\ nextId = group.DesiredCapacity + 1
    /\ lbIn = [lb \in AllLBs |-> IF lb \in LBs(group) THEN Ids(group.Instances) ELSE {}]
    /\ lbOut = [lb \in AllLBs |-> {}]
    /\ \E b \in BatchSizes, lcc \in BOOLEAN, rl \in ReplaceLists :
         params = [launch_config_name |-> LcCur, replace_batch_size |-> b,
                   lc_check |-> lcc, replace_instances |-> rl]
    /\ pc = "r_new0"
    /\ loc = [Loc0 EXCEPT !.asg = group]
    /\ wait = W0
    /\ updLog = <<>>
    /\ dregLog = <<>>
    /\ termLog = <<>>

InitSession == SessionOn(LbConfigs)

Session ==
    \/ ReplaceStart \/ ScaleUpWaitNew \/ ScaleUpWaitElb
    \/ TerminateBatch \/ NextInstance \/ DeregisterWait
    \/ LoopWaitTerm \/ LoopWaitNew \/ LoopWaitElb

\* while such a session runs the group never holds more members than it
\* desires, so the control plane has nothing to scale in
NextSession == Session \/ Launch \/ EnterService \/ Gone \/ LbUp \/ LbDown \/ Tick

SpecLive == InitSession /\ [][NextSession]_vars /\ WF_vars(Session) /\ WF_vars(Tick)

\* C27: every replace session ends: each poll-wait stops after finitely many
\* polls, on the awaited condition or on Timeout once its deadline has passed,
\* the loop takes each chunk once, and so the session returns or stops on a
\* fatal error
SessionEnds == <>(pc \in {"done", "failed"})

EndedAfterPolls == pc \in {"done", "failed"} /\ loc.chunk >= 2

\* ------------------------------------------- faults of the balancers ---
\* the codes a describe call of a balancer may fail with
FaultCodes == {"InvalidInstance", "AccessDenied"}

\* the handler of elb_healthy around describe_instance_health: it reads the
\* code as e['Error']['Code'], a subscript of the exception object itself
\* (the response is in e.response), and an exception takes no string
\* subscript: TypeError is raised inside the handler, before the code is
\* compared. Were the subscript to work, InvalidInstance would return None
\* (less than any min_size: the wait polls again) and any other code would
\* end the module by fail_json
except_ClientError(code) ==
    LET subscript_works == FALSE
    IN IF ~subscript_works THEN "TypeError"
       ELSE IF code = "InvalidInstance" THEN None
       ELSE "RemoteFault"

\* what a fault of the describe call of this balancer makes of elb_healthy:
\* the call of a classic load balancer is inside the try, the call of a
\* target group is not and its ClientError leaves the module as it is
describe_raises(asg, lb, code) ==
    IF InSeq(lb, asg.LoadBalancerNames) THEN except_ClientError(code)
    ELSE "ClientError"

\* wait_for_elb calls elb_healthy, before its loop or inside it, and the
\* describe call of one balancer fails; the balancers are asked only when
\* the group has viable members of the launch configuration
DescribeFault ==
    /\ pc \in {"r_elb1", "r_elb2"}
    /\ ElbMode(get_asg_by_name)
    /\ ~wait.seen /\ ~wait.expired
    /\ healthy_candidates(get_asg_by_name, params.launch_config_name) # {}
    /\ \E lb \in LBs(get_asg_by_name), code \in FaultCodes :
         LET raised == describe_raises(get_asg_by_name, lb, code)
         IN IF raised = None
            THEN /\ WaitOn
                 /\ loc' = [loc EXCEPT !.fault = code]
                 /\ UNCHANGED <<env, params, pc, logs>>
            ELSE /\ pc' = "failed"
                 /\ loc' = [Loc0 EXCEPT !.err = raised, !.fault = code]
                 /\ wait' = W0
                 /\ UNCHANGED <<env, params, logs>>

NextFault == NextSession \/ DescribeFault

SpecFault == InitSession /\ [][NextFault]_vars

\* C28: a describe call of a balancer that fails with InvalidInstance inside
\* elb_healthy does not end the module (the balancers count as reporting no
\* healthy member and wait_for_elb polls again), and one that fails with any
\* other code ends it
InvalidInstanceKeepsPolling ==
    /\ loc.fault = "InvalidInstance" => pc # "failed"
    /\ loc.fault \notin {None, "InvalidInstance"} => pc = "failed"

\* ------------------------------------- groups not checked by a balancer ---
\* the groups elb_dreg and wait_for_elb leave alone: checked by EC2, with or
\* without a balancer attached, or checked by ELB with no balancer attached
NoElbConfigs ==
    {[HealthCheckType |-> "EC2", LoadBalancerNames |-> <<>>, TargetGroupARNs |-> <<>>],
     [HealthCheckType |-> "EC2", LoadBalancerNames |-> <<"elb-1">>, TargetGroupARNs |-> <<>>],
     [HealthCheckType |-> "EC2", LoadBalancerNames |-> <<>>, TargetGroupARNs |-> <<"tg-1">>],
     [HealthCheckType |-> "ELB", LoadBalancerNames |-> <<>>, TargetGroupARNs |-> <<>>]}

InitNoElb == SessionOn(NoElbConfigs)

\* no member is deregistered in such a session, so no balancer drains one
NextNoElb ==
    \/ ReplaceStart \/ ScaleUpWaitNew \/ ScaleUpWaitElb
    \/ TerminateBatch \/ NextInstance
    \/ LoopWaitTerm \/ LoopWaitNew \/ LoopWaitElb
    \/ Launch \/ EnterService \/ Gone \/ LbUp \/ Tick

SpecNoElb == InitNoElb /\ [][NextNoElb]_vars

NotCheckedByBalancer ==
    \/ group.HealthCheckType # "ELB"
    \/ group.LoadBalancerNames = <<>> /\ group.TargetGroupARNs = <<>>

TermWaitReturnsWhenNoneLeft ==
    [][pc = "r_term" =>
          /\ (~wait.seen /\ wait'.seen) => term_inst_left(group, loc.term_instances)
          /\ pc' = "r_new2" => wait.seen
          /\ (wait.seen /\ pc' # pc) => pc' = "r_new2"]_vars

\* C31: when no member of the group is in service and healthy (and of the
\* launch configuration asked for, when one is given), elb_healthy returns 0
\* and sends no describe call to a load balancer or a target group
NoCandidateNoDescribe ==
    (pc = "agg_done" /\ healthy_candidates(group, params.launch_config_name) = {})
        => (loc.healthy_instances = 0 /\ loc.described = <<>>)

NoCandidateButReported ==
    /\ pc = "agg_done"
    /\ healthy_candidates(group, params.launch_config_name) = {}
    /\ \E i \in Range(group.Instances) : Viable(i)
    /\ \A lb \in LBs(group) : lbIn[lb] # {}
    /\ Len(group.LoadBalancerNames) >= 1 /\ Len(group.TargetGroupARNs) >= 1
====
